---- MODULE Spec2Model ----
(***************************************************************************)
(* A model of phrase.py: PhraseModel.forward (mode dispatch, score matrix, *)
(* masking, training targets), encode_phrase, get_logits,                  *)
(* CrossEntropyLossWithDefault and BoundaryFilter.                         *)
(*                                                                         *)
(* Tensors are sequences (batch axis) of integers; a tensor handed in by   *)
(* the caller is a variable, because the code clamps it in place.  Reals   *)
(* are idealised as integers: sums and products are exact.                 *)
(***************************************************************************)
EXTENDS Integers, Sequences, FiniteSets, TLC

\* ---- bounds of the model ----
MaxLen == 3          \* context lengths L_c range over 1..MaxLen
Slack == 1           \* caller positions range over (-1-Slack)..(MaxLen+Slack)
MaxBatch == 1        \* batch sizes range over 1..MaxBatch

Positions == (0 - 1 - Slack)..(MaxLen + Slack)
Lengths == 1..MaxLen

Min(a, b) == IF a <= b THEN a ELSE b
Max(a, b) == IF a >= b THEN a ELSE b

\* ---- torch helpers used by forward ----

\* mutant of Clamp: the lower bound is dropped
ClampUpperOnly(x, lo, hi) == Min(x, hi)

\* Tensor.clamp_(lo, hi), elementwise
Clamp(x, lo, hi) == Max(lo, Min(x, hi))

ClampAll(t, lo, hi) == [b \in 1..Len(t) |-> Clamp(t[b], lo, hi)]

\* mutant of SpanValid: the two comparisons are joined by "or"
SpanValidOr(s, e, ignored_index) == (s < ignored_index) \/ (e < ignored_index)

\* valid = (start_positions < ignored_index) & (end_positions < ignored_index)
SpanValid(s, e, ignored_index) == (s < ignored_index) /\ (e < ignored_index)

\* valid.long()
Long(v) == IF v THEN 1 ELSE 0

\* mutant of SpanTarget: the clamp "needed to handle -1" is missing
SpanTargetNoClamp(s, e, ignored_index) ==
    LET span_ignored_index == ignored_index * ignored_index
        flat == s * ignored_index + e
        valid == Long(SpanValid(s, e, ignored_index))
    IN  valid * flat + (1 - valid) * span_ignored_index

\* span_target of one batch element, from the already clamped positions
SpanTarget(s, e, ignored_index) ==
    LET span_ignored_index == ignored_index * ignored_index
        flat == Clamp(s * ignored_index + e, 0 - 1, span_ignored_index)
        valid == Long(SpanValid(s, e, ignored_index))
    IN  valid * flat + (1 - valid) * span_ignored_index

\* ---- CrossEntropyLossWithDefault ----

\* mutant of ShiftIgnore: every ignore index is shifted, negative ones too
ShiftIgnoreAlways(ignore_index) == ignore_index + 1

\* __init__: if ignore_index >= 0: ignore_index += 1
ShiftIgnore(ignore_index) ==
    IF ignore_index >= 0 THEN ignore_index + 1 ELSE ignore_index

\* new_target = target + 1
NewTarget(target) == [b \in 1..Len(target) |-> target[b] + 1]

\* new_target.min().item()
MinOf(t) == CHOOSE m \in {t[b] : b \in 1..Len(t)} : \A b \in 1..Len(t) : m <= t[b]

\* assert new_target.min().item() >= 0
AssertNonNegative(new_target) == MinOf(new_target) >= 0

\* nn.CrossEntropyLoss over n_classes columns: a target is either the ignore
\* index or must be a class index, else the runtime raises
TargetsInRange(new_target, n_classes, ignore_index) ==
    \A b \in 1..Len(new_target) :
        new_target[b] = ignore_index \/ new_target[b] \in 0..(n_classes - 1)

\* CrossEntropyLossWithDefault(ignore_index=...).forward(input_, target) as far
\* as the targets go; input_ has n_real columns, new_input one more
LossCall(n_real, ignore_arg, target) ==
    LET ignore_index == ShiftIgnore(ignore_arg)
        new_target == NewTarget(target)
    IN  [ignore_index |-> ignore_index,
         new_target |-> new_target,
         n_classes |-> n_real + 1,
         status |-> IF ~AssertNonNegative(new_target) THEN "assert"
                    ELSE IF ~TargetsInRange(new_target, n_real + 1, ignore_index)
                         THEN "bounds"
                         ELSE "ok"]

\* ---- BoundaryFilter ----

\* torch.eye(n), rows and columns counted from 0
Eye(n) == [r \in 0..(n - 1) |-> [c \in 0..(n - 1) |-> IF r = c THEN 1 ELSE 0]]

\* embedding(positions + 1, eye)[:, 1:-1] for one batch element
OneHot(p, length) ==
    LET row == Eye(length + 2)[p + 1] IN [i \in 1..length |-> row[i]]

VARIABLES
    start_positions,   \* the caller's start_positions tensor
    end_positions,     \* the caller's end_positions tensor
    orig_start,        \* history: the caller's tensors as first handed in
    orig_end,
    call               \* what the last joint training call computed

trainVars == <<start_positions, end_positions, orig_start, orig_end, call>>

NoCall == [L |-> 0]

\* PhraseModel.forward, joint training branch, on a context of length L
\* (start_logits.size(1)).  A [B,1] tensor is squeezed to a view of the same
\* storage first, so the in-place clamps reach the caller's tensor either way.
TrainTargets(sp_in, ep_in, L) ==
    LET ignored_index == L
        span_ignored_index == ignored_index * ignored_index
        sp == ClampAll(sp_in, 0 - 1, ignored_index)
        ep == ClampAll(ep_in, 0 - 1, ignored_index)
        span_target == [b \in 1..Len(sp) |-> SpanTarget(sp[b], ep[b], ignored_index)]
        cel_2d == LossCall(span_ignored_index, span_ignored_index, span_target)
        cel_1d_start == LossCall(ignored_index, ignored_index, sp)
        cel_1d_end == LossCall(ignored_index, ignored_index, ep)
        \* BoundaryFilter.forward clamps the same tensors again
        fsp == ClampAll(sp, 0 - 1, ignored_index)
        fep == ClampAll(ep, 0 - 1, ignored_index)
        reached_1d == cel_2d.status = "ok"
        reached_filter == /\ reached_1d
                          /\ cel_1d_start.status = "ok"
                          /\ cel_1d_end.status = "ok"
    IN  [L |-> L,
         start_in |-> sp_in,
         end_in |-> ep_in,
         start |-> IF reached_filter THEN fsp ELSE sp,
         end |-> IF reached_filter THEN fep ELSE ep,
         span_target |-> span_target,
         cel_2d |-> cel_2d,
         cel_1d_start |-> IF reached_1d THEN cel_1d_start ELSE [status |-> "skipped"],
         cel_1d_end |-> IF reached_1d /\ cel_1d_start.status = "ok"
                        THEN cel_1d_end ELSE [status |-> "skipped"],
         start_1hot |-> IF reached_filter
                        THEN [b \in 1..Len(fsp) |-> OneHot(fsp[b], L)] ELSE <<>>,
         end_1hot |-> IF reached_filter
                      THEN [b \in 1..Len(fep) |-> OneHot(fep[b], L)] ELSE <<>>,
         status |-> IF reached_filter THEN "ok" ELSE "raised"]

ForwardTrain(L) ==
    /\ \E r \in {TrainTargets(start_positions, end_positions, L)} :
           /\ call' = r
           /\ start_positions' = r.start
           /\ end_positions' = r.end
    /\ UNCHANGED <<orig_start, orig_end>>

NextTrain == \E L \in Lengths : ForwardTrain(L)

\* ---- encode_phrase, get_logits, BoundaryFilter (inference), forward ----
\* One batch element; the batch axis is dropped.  A layer is a sequence
\* (positions) of sequences (features).

MaxPhraseSize == 5   \* phrase_size ranges over 3..MaxPhraseSize
MaxWidth == 6        \* the encoder width D ranges over 1..MaxWidth

NegInf == 1000000000 \* the 1e9 of exp_mask

Metrics == {"ip", "l2", "cos"}

\* encoder output for a token: the encoder is opaque, so a token's hidden
\* vector of width D is drawn from a small family (even entries, so that the
\* 0.5 of the l2 metric is exact)
Seeds == 0..2
HiddenOf(seed, D) == [k \in 1..D |-> 2 * ((seed + k) % 3) - 2]

Width(layer) == Len(layer[1])

\* layer[:, :, lo:hi] with 0-based, clamped slice bounds
Slice(layer, lo, hi) ==
    [i \in 1..Len(layer) |-> SubSeq(layer[i], Min(lo, Width(layer)) + 1, Min(hi, Width(layer)))]

\* Tensor.chunk(2, dim=2): chunks of ceil(w/2) features; a width of 1 gives a
\* single chunk, a width of 0 two empty ones
Chunk2(layer) ==
    LET w == Width(layer)
        size == (w + 1) \div 2
    IN  IF w = 0 THEN <<layer, layer>>
        ELSE IF w - size = 0 THEN <<layer>>
        ELSE <<Slice(layer, 0, size), Slice(layer, size, w)>>

RECURSIVE SumTo(_, _)
SumTo(f, n) == IF n = 0 THEN 0 ELSE f[n] + SumTo(f, n - 1)

\* (a * b).sum(-1) of two vectors of one width
Dot(a, b) == SumTo([k \in 1..Len(a) |-> a[k] * b[k]], Len(a))

\* encode_phrase(layer, phrase_size, get_first_only)
EncodePhrase(layer, phrase_size, get_first_only) ==
    LET boundary_layer == Slice(layer, 0, phrase_size - 1)
        span_layer == Slice(layer, phrase_size - 1, Width(layer))
        bc == Chunk2(boundary_layer)
        sc == Chunk2(span_layer)
    IN  IF Len(bc) # 2 THEN [error |-> "unpack"]
        ELSE IF Len(sc) # 2 THEN [error |-> "unpack"]
        ELSE IF Width(sc[1]) # Width(sc[2]) THEN [error |-> "matmul"]
        ELSE LET span_logits == [i \in 1..Len(layer) |->
                                   [j \in 1..Len(layer) |-> Dot(sc[1][i], sc[2][j])]]
             IN  IF get_first_only
                 THEN [error |-> "none",
                       start |-> SubSeq(bc[1], 1, 1),
                       end |-> SubSeq(bc[2], 1, 1),
                       span_logits |-> <<SubSeq(span_logits[1], 1, 1)>>]
                 ELSE [error |-> "none", start |-> bc[1], end |-> bc[2],
                       span_logits |-> span_logits]

\* 0.5 * x, exact on the even values the model draws
Half(x) == x \div 2

\* get_logits(a, b, metric) on two vectors; an unknown metric raises
MetricKnown(metric) == metric \in {"ip", "l2"}
GetLogits(a, b, metric) ==
    IF metric = "ip" THEN Dot(a, b)
    ELSE Dot(a, b) - Half(Dot(a, a) + Dot(b, b))

\* PhraseModel.__init__: boundary_size = int((phrase_size - 1) / 2)
BoundarySize(phrase_size) == (phrase_size - 1) \div 2

\* nn.Linear(boundary_size, 1) of the filter: weights and bias are parameters,
\* fixed here; a vector of another width is a shape error
FilterWeight(boundary_size) == [k \in 1..boundary_size |-> 2]
LinearFits(vecs, boundary_size) == Width(vecs) = boundary_size
Linear(vecs, boundary_size) ==
    [i \in 1..Len(vecs) |-> Dot(vecs[i], FilterWeight(boundary_size))]

\* .float() of a boolean
Float(v) == IF v THEN 1 ELSE 0

\* mutant of ExpMask: one -1e9 per unattended position of the pair
ExpMaskPerPosition(mi, mj) ==
    (0 - NegInf) * (1 - Float(mi)) + (0 - NegInf) * (1 - Float(mj))

\* exp_mask[i, j] = -1e9 * (1.0 - (context_mask[j] & context_mask[i]).float())
ExpMask(mi, mj) == (0 - NegInf) * (1 - Float(mi /\ mj))

\* mutant of QueryBranchReturns: the test is inverted
QueryBranchReturnsInverted(a) == a.has_context

\* "if context_ids is None: return query_start, query_end, q_span_logits"
QueryBranchReturns(a) == ~a.has_context

\* "if query_ids is None: return start, end, span_logits, ..."
ContextBranchReturns(a) == ~a.has_query

\* PhraseModel.forward for model m = [phrase_size, metric] and call a:
\* a.has_context / a.has_query / a.has_mask / a.has_start / a.has_end say which
\* arguments are not None; a.context_layer and a.question_layer are what the
\* encoder returns for the ids, a.context_mask the mask
Forward(m, a) ==
    LET ctx == EncodePhrase(a.context_layer, m.phrase_size, FALSE)
        bsize == BoundarySize(m.phrase_size)
        qry == EncodePhrase(a.question_layer, m.phrase_size, TRUE)
        L == Len(a.context_layer)
        start_filter_logits == Linear(ctx.start, bsize)
        end_filter_logits == Linear(ctx.end, bsize)
        start_logits == [i \in 1..L |-> GetLogits(ctx.start[i], qry.start[1], m.metric)]
        end_logits == [j \in 1..L |-> GetLogits(ctx.end[j], qry.end[1], m.metric)]
        cross_logits == [i \in 1..L |-> [j \in 1..L |->
                           GetLogits(<<ctx.span_logits[i][j]>>,
                                     <<qry.span_logits[1][1]>>, m.metric)]]
        unmasked == [i \in 1..L |-> [j \in 1..L |->
                       start_logits[i] + end_logits[j] + cross_logits[i][j]]]
        exp_mask == [i \in 1..L |-> [j \in 1..L |->
                       ExpMask(a.context_mask[i], a.context_mask[j])]]
        all_logits == [i \in 1..L |-> [j \in 1..L |-> unmasked[i][j] + exp_mask[i][j]]]
    IN  IF a.has_context /\ ctx.error # "none"
            THEN [kind |-> "error", error |-> ctx.error]
        ELSE IF a.has_context /\ ~(LinearFits(ctx.start, bsize) /\ LinearFits(ctx.end, bsize))
            THEN [kind |-> "error", error |-> "linear"]
        ELSE IF a.has_context /\ ContextBranchReturns(a)
            THEN [kind |-> "context", start |-> ctx.start, end |-> ctx.end,
                  span_logits |-> ctx.span_logits,
                  start_filter_logits |-> start_filter_logits,
                  end_filter_logits |-> end_filter_logits]
        ELSE IF a.has_query /\ qry.error # "none"
            THEN [kind |-> "error", error |-> qry.error]
        ELSE IF a.has_query /\ QueryBranchReturns(a)
            THEN [kind |-> "query", start |-> qry.start, end |-> qry.end,
                  span_logits |-> qry.span_logits]
        ELSE IF ~a.has_context
            THEN [kind |-> "error", error |-> "unbound"]
        ELSE IF ~MetricKnown(m.metric)
            THEN [kind |-> "error", error |-> "metric"]
        ELSE IF ~a.has_mask
            THEN [kind |-> "error", error |-> "nomask"]
        ELSE IF a.has_start /\ a.has_end
            THEN [kind |-> "loss", unmasked |-> unmasked, all_logits |-> all_logits]
        ELSE [kind |-> "joint", unmasked |-> unmasked, all_logits |-> all_logits,
              start_filter_logits |-> start_filter_logits,
              end_filter_logits |-> end_filter_logits]

VARIABLES
    model,     \* the constructed PhraseModel: phrase_size, metric
    args,      \* the arguments of the last forward call
    fwd,       \* what the last forward call returned or raised
    cached     \* TRUE once a context-only call has returned its tensors

fwdVars == <<model, args, fwd, cached>>

NoArgs == [has_context |-> FALSE, has_query |-> FALSE]
NoResult == [kind |-> "none"]

LayerOf(seeds, D) == [i \in 1..Len(seeds) |-> HiddenOf(seeds[i], D)]

\* every call a caller can make on an encoder of width D and a context of
\* length L whose tokens and mask are given
CallsOn(D, ctx_seeds, mask, qry_seed) ==
    {[has_context |-> hc, has_query |-> hq, has_mask |-> hm,
      has_start |-> hs, has_end |-> he,
      context_layer |-> LayerOf(ctx_seeds, D),
      context_mask |-> mask,
      question_layer |-> LayerOf(<<qry_seed, 0>>, D)] :
        hc \in BOOLEAN, hq \in BOOLEAN, hm \in BOOLEAN, hs \in BOOLEAN, he \in BOOLEAN}

ForwardCall(a) ==
    /\ args' = a
    /\ fwd' = Forward(model, a)
    /\ cached' = (cached \/ fwd'.kind = "context")
    /\ UNCHANGED model

NextModes ==
    \E a \in CallsOn(model.width, <<0, 1>>, <<TRUE, TRUE>>, 2) : ForwardCall(a)

MaskConfigs == {[phrase_size |-> 3, width |-> 4], [phrase_size |-> 5, width |-> 8]}

NextMask ==
    /\ fwd = NoResult
    /\ \E L \in Lengths :
         \E seeds \in [1..L -> Seeds], mask \in [1..L -> BOOLEAN], q \in Seeds :
             ForwardCall([has_context |-> TRUE, has_query |-> TRUE, has_mask |-> TRUE,
                          has_start |-> FALSE, has_end |-> FALSE,
                          context_layer |-> LayerOf(seeds, model.width),
                          context_mask |-> mask,
                          question_layer |-> LayerOf(<<q, 0>>, model.width)])

\* ---- CrossEntropyLossWithDefault on its own (specification SpecLoss) ----

MaxClasses == 2      \* input_ has 0..MaxClasses columns (real classes)

\* the values drawn for logits and for the default parameter
LogitValues == {0 - 2, 0, 2}

RECURSIVE Pow2(_)
Pow2(n) == IF n <= 0 THEN 1 ELSE 2 * Pow2(n - 1)

\* torch.cat([default_value, input_], 1) for one row
NewInput(default_value, row) == <<default_value>> \o row

\* nn.CrossEntropyLoss, one row: -log softmax(new_input)[new_target], kept as
\* the pair (num, den) with term = log(num / den), the exponential taken to
\* base 2 of the logit shifted to be non-negative; it is zero iff num = den.
\* A row whose target is the ignore index contributes nothing.
RowTerm(new_input, new_target, ignore_index) ==
    IF new_target = ignore_index
    THEN [ignored |-> TRUE, num |-> 1, den |-> 1]
    ELSE [ignored |-> FALSE,
          num |-> SumTo([c \in 1..Len(new_input) |-> Pow2(new_input[c] + 2)],
                        Len(new_input)),
          den |-> Pow2(new_input[new_target + 1] + 2)]

\* CrossEntropyLossWithDefault(default_value, ignore_index).forward(input_, target)
LossForward(default_value, ignore_arg, input_, target) ==
    LET c == LossCall(Len(input_[1]), ignore_arg, target)
    IN  [status |-> c.status,
         ignore_arg |-> ignore_arg,
         ignore_index |-> c.ignore_index,
         target |-> target,
         new_target |-> c.new_target,
         n_classes |-> c.n_classes,
         terms |-> IF c.status = "ok"
                   THEN [b \in 1..Len(target) |->
                           RowTerm(NewInput(default_value, input_[b]),
                                   c.new_target[b], c.ignore_index)]
                   ELSE <<>>]

VARIABLES
    loss       \* the last call of a default-aware loss made directly

lossVars == <<loss>>

NoLoss == [status |-> "none"]

\* the ignore_index arguments tried: the default -100 and the values around 0
IgnoreArgs == {0 - 100} \cup ((0 - 2)..MaxClasses)

LossStep ==
    /\ loss = NoLoss
    /\ \E n \in 0..MaxClasses, B \in 1..MaxBatch, ignore_arg \in IgnoreArgs,
          default_value \in LogitValues, seed \in Seeds :
         \E target \in [1..B -> (0 - 2)..(n + 1)] :
             loss' = LossForward(default_value, ignore_arg,
                                 [b \in 1..B |-> HiddenOf(seed + b, n)], target)

vars == <<trainVars, fwdVars, lossVars>>

\* A specification drives one part of the program; the variables of the
\* other parts keep the values below.
IdleModel == [phrase_size |-> 3, width |-> 4, metric |-> "ip"]

\* -- Spec: joint training calls that reuse the caller's position tensors
Init ==
    /\ \E B \in 1..MaxBatch :
         /\ start_positions \in [1..B -> Positions]
         /\ end_positions \in [1..B -> Positions]
    /\ orig_start = start_positions
    /\ orig_end = end_positions
    /\ call = NoCall
    /\ model = IdleModel
    /\ args = NoArgs
    /\ fwd = NoResult
    /\ cached = FALSE
    /\ loss = NoLoss

Next == NextTrain /\ UNCHANGED <<fwdVars, lossVars>>
Spec == Init /\ [][Next]_vars

\* -- SpecModes: every model configuration, every combination of present
\* -- arguments, fixed token data
InitModes ==
    /\ \E P \in 3..MaxPhraseSize, D \in 1..MaxWidth, metric \in Metrics :
         model = [phrase_size |-> P, width |-> D, metric |-> metric]
    /\ args = NoArgs
    /\ fwd = NoResult
    /\ cached = FALSE
    /\ start_positions = <<0>>
    /\ end_positions = <<0>>
    /\ orig_start = <<0>>
    /\ orig_end = <<0>>
    /\ call = NoCall
    /\ loss = NoLoss

NextM == NextModes /\ UNCHANGED <<trainVars, lossVars>>
SpecModes == InitModes /\ [][NextM]_vars

\* -- SpecMask: one joint inference call on a valid configuration, for every
\* -- token sequence and context mask up to MaxLen
InitMask ==
    /\ \E c \in MaskConfigs, metric \in {"ip", "l2"} :
         model = [phrase_size |-> c.phrase_size, width |-> c.width, metric |-> metric]
    /\ args = NoArgs
    /\ fwd = NoResult
    /\ cached = FALSE
    /\ start_positions = <<0>>
    /\ end_positions = <<0>>
    /\ orig_start = <<0>>
    /\ orig_end = <<0>>
    /\ call = NoCall
    /\ loss = NoLoss

NextK == NextMask /\ UNCHANGED <<trainVars, lossVars>>
SpecMask == InitMask /\ [][NextK]_vars

\* -- SpecLoss: one direct call of a default-aware loss
InitLoss ==
    /\ loss = NoLoss
    /\ model = IdleModel
    /\ args = NoArgs
    /\ fwd = NoResult
    /\ cached = FALSE
    /\ start_positions = <<0>>
    /\ end_positions = <<0>>
    /\ orig_start = <<0>>
    /\ orig_end = <<0>>
    /\ call = NoCall

NextL == LossStep /\ UNCHANGED <<trainVars, fwdVars>>
SpecLoss == InitLoss /\ [][NextL]_vars

\* ---- properties of the joint training branch (specification Spec) ----

Called == call.L > 0
Batch == 1..Len(start_positions)

\* the clamp to [-1, L] as the claims state it
Clamped(x, L) == IF x < 0 - 1 THEN 0 - 1 ELSE IF x > L THEN L ELSE x

\* C1 as stated: an element handed in with start = -1 and end = -1 gets
\* span_target = L_c^2.
C1_SentinelIsLSquared ==
    Called =>
        \A b \in Batch :
            (call.start_in[b] = 0 - 1 /\ call.end_in[b] = 0 - 1)
                => call.span_target[b] = call.L * call.L

\* C1 amended: an element handed in with start = -1 and end = -1 gets
\* span_target = -1, the clamped value of (-1)*L_c + (-1); the 2-D loss shifts
\* it to class 0, the default, which is not its ignore index.
C1_SentinelIsDefault ==
    Called =>
        \A b \in Batch :
            (call.start_in[b] = 0 - 1 /\ call.end_in[b] = 0 - 1)
                => /\ call.span_target[b] = 0 - 1
                   /\ call.cel_2d.new_target[b] = 0
                   /\ call.cel_2d.ignore_index # 0

C1_Witness ==
    /\ Called
    /\ \E b \in Batch :
          /\ call.start_in[b] = 0 - 1
          /\ call.end_in[b] = 0 - 1
          /\ call.L >= 2
          /\ call.span_target[b] = 0 - 1

\* C2: with s, e the positions clamped to [-1, L_c]: if s = L_c or e = L_c
\* then span_target = L_c^2, and if both lie in 0..L_c-1 then
\* span_target = s*L_c + e.
C2_SpanTargetCases ==
    Called =>
        \A b \in Batch :
            LET L == call.L
                s == Clamped(call.start_in[b], L)
                e == Clamped(call.end_in[b], L)
            IN  /\ (s = L \/ e = L) => call.span_target[b] = L * L
                /\ (s \in 0..(L - 1) /\ e \in 0..(L - 1))
                      => call.span_target[b] = s * L + e

C2_Witness ==
    /\ Called
    /\ \E b \in Batch :
          /\ call.start_in[b] \in 0..(call.L - 1)
          /\ call.end_in[b] > call.L
          /\ call.L >= 2
          /\ call.span_target[b] = call.L * call.L

\* C5 as stated: a call leaves the caller's start_positions and end_positions
\* holding the values they held before it.
C5_InputsUnchanged ==
    Called => (start_positions = call.start_in /\ end_positions = call.end_in)

\* C8: in the training branch no assertion fires and no target is out of
\* range: every shifted target is a class index (0..L_c for the 1-D losses,
\* 0..L_c^2 for the 2-D loss) or the shifted ignore index (L_c+1, L_c^2+1); a
\* target of -1 is shifted to class 0, which is not the ignore index.
C8_TargetsWellFormed ==
    Called =>
        LET L == call.L IN
        /\ call.status = "ok"
        /\ call.cel_2d.status = "ok"
        /\ call.cel_1d_start.status = "ok"
        /\ call.cel_1d_end.status = "ok"
        /\ call.cel_1d_start.ignore_index = L + 1
        /\ call.cel_1d_end.ignore_index = L + 1
        /\ call.cel_2d.ignore_index = L * L + 1
        /\ \A b \in Batch :
              /\ call.cel_1d_start.new_target[b] \in 0..(L + 1)
              /\ call.cel_1d_end.new_target[b] \in 0..(L + 1)
              /\ call.cel_2d.new_target[b] \in 0..(L * L + 1)
              /\ call.start_in[b] <= 0 - 1 => call.cel_1d_start.new_target[b] = 0
              /\ call.end_in[b] <= 0 - 1 => call.cel_1d_end.new_target[b] = 0
              /\ call.span_target[b] = 0 - 1 => call.cel_2d.new_target[b] = 0

C8_Witness ==
    /\ Called
    /\ call.status = "ok"
    /\ \E b \in Batch :
          /\ call.start_in[b] < 0 - 1
          /\ call.end_in[b] > call.L
          /\ call.cel_1d_start.new_target[b] = 0
          /\ call.cel_1d_end.new_target[b] = call.L + 1

\* C9 as stated: span_target lies in 0..L_c^2-1 only if both clamped positions
\* lie in 0..L_c-1, and then it is start*L_c + end.
C9_NoSpuriousSpan ==
    Called =>
        \A b \in Batch :
            LET L == call.L
                s == Clamped(call.start_in[b], L)
                e == Clamped(call.end_in[b], L)
            IN  call.span_target[b] \in 0..(L * L - 1)
                  => /\ s \in 0..(L - 1)
                     /\ e \in 0..(L - 1)
                     /\ call.span_target[b] = s * L + e

\* C10 as stated: in every call of a sequence that reuses the same position
\* tensors, the 1-D targets, span_target and one-hot targets equal those a
\* fresh copy of the original positions gives with that call's length.
C10_SameAsFreshCopy ==
    Called =>
        LET fresh == TrainTargets(orig_start, orig_end, call.L)
        IN  /\ call.cel_1d_start.new_target = fresh.cel_1d_start.new_target
            /\ call.cel_1d_end.new_target = fresh.cel_1d_end.new_target
            /\ call.span_target = fresh.span_target
            /\ call.start_1hot = fresh.start_1hot
            /\ call.end_1hot = fresh.end_1hot

\* ---- properties of the score matrix (specification SpecMask) ----

\* C3: in joint mode the mask term of the pair (i, j) is 0 when context_mask[i]
\* and context_mask[j] are both true and exactly -1e9 otherwise, so every
\* entry of a row or column k with context_mask[k] false is its unmasked value
\* minus 1e9, the diagonal and doubly unattended pairs included.
C3_MaskAddedOnce ==
    fwd.kind = "joint" =>
        LET L == Len(args.context_mask) IN
        \A i \in 1..L : \A j \in 1..L :
            fwd.all_logits[i][j] - fwd.unmasked[i][j] =
                IF args.context_mask[i] /\ args.context_mask[j] THEN 0 ELSE 0 - 1000000000

C3_Witness ==
    /\ fwd.kind = "joint"
    /\ \E k \in 1..Len(args.context_mask) : \E l \in 1..Len(args.context_mask) :
          /\ k # l
          /\ ~args.context_mask[k]
          /\ ~args.context_mask[l]
          /\ fwd.unmasked[k][l] # 0
          /\ fwd.all_logits[k][l] = fwd.unmasked[k][l] - 1000000000
          /\ fwd.all_logits[k][k] = fwd.unmasked[k][k] - 1000000000

\* ---- properties of the call modes (specification SpecModes) ----

JointKinds == {"joint", "loss"}
OddlySplit(m) ==
    (m.phrase_size - 1) % 2 # 0 \/ (m.width - (m.phrase_size - 1)) % 2 # 0

\* C4 as stated: once a context-only call has returned the context tensors, a
\* call with a query and no context ids gives the joint scores or the loss.
C4_JointWithoutContext ==
    (cached /\ args.has_query /\ ~args.has_context) => fwd.kind \in JointKinds

\* C4 amended: a call with a query and no context ids returns the query
\* embedding only (or raises where encode_phrase cannot split the query
\* layer), also after a context-only call; joint scores or a loss come only
\* from a call that has both context ids and query ids.
C4_QueryOnlyGivesQuery ==
    /\ (args.has_query /\ ~args.has_context)
          => \/ fwd.kind = "query"
             \/ fwd.kind = "error" /\ fwd.error \in {"unpack", "matmul"}
    /\ fwd.kind \in JointKinds => (args.has_context /\ args.has_query)

C4_Witness ==
    /\ cached
    /\ args.has_query
    /\ ~args.has_context
    /\ fwd.kind = "query"

\* C7 as stated: a configuration whose phrase_size - 1 or whose
\* D - (phrase_size - 1) is odd is rejected by every call: none returns.
C7_OddSplitRejected ==
    (fwd.kind # "none" /\ OddlySplit(model)) => fwd.kind = "error"

\* ---- properties of the default-aware loss (specification SpecLoss) ----

LossRows == 1..Len(loss.target)

\* C6 as stated: with ignore_index = -1 and a target of -1 the element is
\* ignored: the target is shifted to 0, the ignore index is shifted to 0 too,
\* and the element contributes zero to the loss.
C6_MinusOneIgnored ==
    (loss.status = "ok" /\ loss.ignore_arg = 0 - 1) =>
        \A b \in LossRows :
            loss.target[b] = 0 - 1
                => /\ loss.new_target[b] = 0
                   /\ loss.ignore_index = 0
                   /\ loss.terms[b].ignored
                   /\ loss.terms[b].num = loss.terms[b].den

\* C6 amended: with ignore_index = -1 the ignore index is not shifted (only a
\* non-negative one is) and stays -1; a target of -1 is shifted to class 0,
\* the default, and the element is not ignored: it contributes the
\* cross-entropy of the default class, which is non-zero as soon as the input
\* has a real class.
C6_MinusOneIsDefaultClass ==
    (loss.status # "none" /\ loss.ignore_arg = 0 - 1) =>
        /\ loss.ignore_index = 0 - 1
        /\ \A b \in LossRows :
              loss.target[b] = 0 - 1
                  => /\ loss.new_target[b] = 0
                     /\ loss.status = "ok"
                          => /\ ~loss.terms[b].ignored
                             /\ loss.n_classes > 1
                                  => loss.terms[b].num > loss.terms[b].den

C6_Witness ==
    /\ loss.status = "ok"
    /\ loss.ignore_arg = 0 - 1
    /\ loss.n_classes > 1
    /\ \E b \in LossRows :
          /\ loss.target[b] = 0 - 1
          /\ loss.new_target[b] = 0
          /\ ~loss.terms[b].ignored

====
